---- MODULE Spec2Model ----
(***************************************************************************)
(* subxray: main.py fetches a base64 subscription, splits it into share    *)
(* links and turns each link (vmess://, vless://, trojan://, ss://) into   *)
(* an Xray configuration file with the decoders of xray_parser.py.         *)
(*                                                                         *)
(* Python values are tagged records [t |-> type, v |-> payload]; a Python  *)
(* str is the sequence of its code points, a bytes object the sequence of  *)
(* its bytes.  A Python call that may raise returns [ok |-> FALSE,         *)
(* exc |-> name] or [ok |-> TRUE, val |-> value].                          *)
(***************************************************************************)
EXTENDS Integers, Sequences, FiniteSets, Bags, TLC

VARIABLES
    pc,                 \* position of main(): "start", "check", "loop", "done", "exit1", "crashed"
    omit_first,         \* args.omit_first
    response,           \* what the subscription URL answers: "error", or the kind of body
    body,               \* response.content (bytes)
    fetches,            \* number of requests.get calls made
    fetched,            \* the list fetch_links_from_subscription returned
    links,              \* the list the loop iterates (after the optional pop(0))
    idx,                \* number of links of `links` the loop has taken
    successful_configs, \* main.py:113
    failed_configs,     \* main.py:114
    files,              \* the working directory: file name -> [content, complete]
    trace,              \* per link taken: decoder called, config handed to persist, outcome printed
    fn,                 \* SpecFn: the pure function under check
    fin,                \* SpecFn: its input
    fout                \* SpecFn: its result

vars == <<pc, omit_first, response, body, fetches, fetched, links, idx,
          successful_configs, failed_configs, files, trace, fn, fin, fout>>

(***************************************************************************)
(* Python values                                                           *)
(***************************************************************************)
StrV(s)   == [t |-> "str",  v |-> s]
IntV(n)   == [t |-> "int",  v |-> n]
BoolV(b)  == [t |-> "bool", v |-> b]
ListV(xs) == [t |-> "list", v |-> xs]
DictV(d)  == [t |-> "dict", v |-> d]
None      == [t |-> "None", v |-> 0]

Ok(x)      == [ok |-> TRUE,  val |-> x]
Raise(exc) == [ok |-> FALSE, exc |-> exc]

EmptyDict == [k \in {} |-> None]

\* a local variable: F applied to the value of e, e evaluated once
With(e, F(_)) == CHOOSE r \in BagToSet(BagOfAll(F, SetToBag({e}))) : TRUE

\* bool(x): Python truthiness
Truthy(x) ==
    CASE x.t = "None" -> FALSE
      [] x.t = "bool" -> x.v
      [] x.t = "int"  -> x.v # 0
      [] x.t = "str"  -> Len(x.v) > 0
      [] x.t = "list" -> Len(x.v) > 0
      [] x.t = "dict" -> DOMAIN x.v # {}

\* a or b
PyOr(a, b) == IF Truthy(a) THEN a ELSE b

\* x in [True, 'true']  (True == 1 in Python)
InTrueList(x) ==
    \/ x.t = "bool" /\ x.v
    \/ x.t = "int" /\ x.v = 1
    \/ x.t = "str" /\ x.v = <<116, 114, 117, 101>>

(***************************************************************************)
(* str / bytes methods                                                     *)
(***************************************************************************)
Min(S) == CHOOSE i \in S : \A j \in S : i <= j
Max(S) == CHOOSE i \in S : \A j \in S : i >= j

Drop(s, n) == SubSeq(s, n + 1, Len(s))
Take(s, n) == SubSeq(s, 1, n)

\* the indices of s whose character satisfies P, in order
Where(s, P(_)) == SelectSeq([i \in 1..Len(s) |-> i], LAMBDA i : P(s[i]))

\* s.find(c) + 1 for a one-character c: the first index of c, 0 when absent
Find(s, c) ==
    With({i \in 1..Len(s) : s[i] = c}, LAMBDA hits : IF hits = {} THEN 0 ELSE Min(hits))

\* s.rfind(c) + 1
RFind(s, c) ==
    With({i \in 1..Len(s) : s[i] = c}, LAMBDA hits : IF hits = {} THEN 0 ELSE Max(hits))

\* s.startswith(p)
StartsWith(s, p) == Len(s) >= Len(p) /\ Take(s, Len(p)) = p

\* s.partition(c): <<head, found, tail>>
Partition(s, c) ==
    With(Find(s, c), LAMBDA i :
        IF i = 0 THEN <<s, FALSE, <<>>>> ELSE <<Take(s, i - 1), TRUE, Drop(s, i)>>)

\* s.rpartition(c): <<head, found, tail>>
RPartition(s, c) ==
    With(RFind(s, c), LAMBDA i :
        IF i = 0 THEN <<<<>>, FALSE, s>> ELSE <<Take(s, i - 1), TRUE, Drop(s, i)>>)

\* the pieces of s between the characters that satisfy P
SplitAt(s, P(_)) ==
    With(Where(s, P), LAMBDA h :
        [k \in 1..(Len(h) + 1) |->
            SubSeq(s, IF k = 1 THEN 1 ELSE h[k - 1] + 1,
                      IF k > Len(h) THEN Len(s) ELSE h[k] - 1)])

\* s.split(c)
Split(s, c) == SplitAt(s, LAMBDA x : x = c)

\* s.lower() on ASCII letters
LowerChar(c) == IF c >= 65 /\ c <= 90 THEN c + 32 ELSE c
Lower(s) == [i \in 1..Len(s) |-> LowerChar(s[i])]

\* s without the characters of drop
Remove(s, drop) == SelectSeq(s, LAMBDA c : c \notin drop)

IsDigit(c) == c >= 48 /\ c <= 57
IsAlpha(c) == (c >= 65 /\ c <= 90) \/ (c >= 97 /\ c <= 122)
IsHex(c)   == IsDigit(c) \/ (c >= 65 /\ c <= 70) \/ (c >= 97 /\ c <= 102)
HexVal(c)  == IF IsDigit(c) THEN c - 48 ELSE IF c >= 97 THEN c - 87 ELSE c - 55

\* str.isspace() of one character (ASCII, NEL and NBSP)
IsSpace(c) == (c >= 9 /\ c <= 13) \/ (c >= 28 /\ c <= 32) \/ c = 133 \/ c = 160

\* s.lstrip() for P = isspace: s without its leading characters that satisfy P
LStripOf(s, P(_)) == Drop(s, Min({k \in 0..Len(s) : k = Len(s) \/ ~P(s[k + 1])}))

\* s.strip()
Strip(s) ==
    With(LStripOf(s, IsSpace), LAMBDA l :
        Take(l, Max({k \in 0..Len(l) : k = 0 \/ ~IsSpace(l[k])})))

\* the value of the decimal digits s[1..n]
RECURSIVE DigitsValTo(_, _)
DigitsValTo(s, n) == IF n = 0 THEN 0 ELSE 10 * DigitsValTo(s, n - 1) + (s[n] - 48)
DigitsVal(s) == DigitsValTo(s, Len(s))

\* int(s) for a str: surrounding whitespace, one optional sign, decimal digits
\* with single underscores between them; anything else is a ValueError
IntOfStr(s) ==
    With(Strip(s), LAMBDA w :
    With(IF w # <<>> /\ w[1] \in {43, 45} THEN Tail(w) ELSE w, LAMBDA d :
        IF ~(/\ d # <<>>
             /\ \A i \in 1..Len(d) : IsDigit(d[i]) \/ d[i] = 95
             /\ IsDigit(d[1]) /\ IsDigit(d[Len(d)])
             /\ \A i \in 1..(Len(d) - 1) : ~(d[i] = 95 /\ d[i + 1] = 95))
        THEN Raise("ValueError")
        ELSE With(DigitsVal(Remove(d, {95})), LAMBDA n :
                Ok(IntV(IF w[1] = 45 THEN 0 - n ELSE n)))))

\* int(x) for a Python value
PyInt(x) ==
    CASE x.t = "int"  -> Ok(x)
      [] x.t = "bool" -> Ok(IntV(IF x.v THEN 1 ELSE 0))
      [] x.t = "str"  -> IntOfStr(x.v)
      [] OTHER        -> Raise("TypeError")

(***************************************************************************)
(* base64, UTF-8, percent-decoding and JSON, as the library computes them  *)
(***************************************************************************)
\* the 6-bit value of a character of the standard alphabet, 64 for any other
B64Val(c) ==
    IF c >= 65 /\ c <= 90 THEN c - 65
    ELSE IF c >= 97 /\ c <= 122 THEN c - 71
    ELSE IF c >= 48 /\ c <= 57 THEN c + 4
    ELSE IF c = 43 THEN 62
    ELSE IF c = 47 THEN 63
    ELSE 64

\* the bytes written by the 6-bit values v: three for each four values, one
\* for two values left over, two for three
B64Bytes(v) ==
    [k \in 1..(3 * (Len(v) \div 4) + (CASE Len(v) % 4 = 3 -> 2
                                         [] Len(v) % 4 = 2 -> 1
                                         [] OTHER -> 0)) |->
        CASE (k - 1) % 3 = 0 ->
                v[4 * ((k - 1) \div 3) + 1] * 4 + (v[4 * ((k - 1) \div 3) + 2] \div 16)
          [] (k - 1) % 3 = 1 ->
                (v[4 * ((k - 1) \div 3) + 2] % 16) * 16 + (v[4 * ((k - 1) \div 3) + 3] \div 4)
          [] (k - 1) % 3 = 2 ->
                (v[4 * ((k - 1) \div 3) + 3] % 4) * 64 + v[4 * ((k - 1) \div 3) + 4]]

\* binascii.a2b_base64(s), not strict.  Characters outside the alphabet are
\* skipped; the input ends at the '=' that completes a quad (the first '='
\* after three characters of a quad, the second after two); a quad left
\* incomplete at the end of the input is an error.
a2b_base64(s) ==
    With({i \in 1..Len(s) :
            /\ s[i] = 61
            /\ With(Cardinality({j \in 1..(i - 1) : B64Val(s[j]) < 64}) % 4, LAMBDA quad :
                  \/ quad = 3
                  \/ /\ quad = 2
                     /\ \E j \in 1..(i - 1) :
                           s[j] = 61 /\ \A k \in (j + 1)..(i - 1) : B64Val(s[k]) = 64)},
         LAMBDA stops :
    With(IF stops = {} THEN Len(s) ELSE Min(stops) - 1, LAMBDA end :
    With(SelectSeq([i \in 1..end |-> B64Val(s[i])], LAMBDA x : x < 64), LAMBDA v :
        IF stops = {} /\ Len(v) % 4 # 0 THEN Raise("binascii.Error")
        ELSE Ok(B64Bytes(v)))))

\* base64.b64decode(s) of a str s: s.encode('ascii') first
b64decode(s) ==
    IF \E i \in 1..Len(s) : s[i] > 127 THEN Raise("ValueError")
    ELSE a2b_base64(s)

\* base64.urlsafe_b64decode(s): '-' and '_' stand for '+' and '/'
urlsafe_b64decode(s) ==
    With([i \in 1..Len(s) |-> IF s[i] = 45 THEN 43 ELSE IF s[i] = 95 THEN 47 ELSE s[i]],
         LAMBDA t : b64decode(t))

\* the number of continuation bytes the lead byte c announces, -1 for a byte
\* that cannot start a sequence
Utf8Need(c) ==
    IF c < 128 THEN 0
    ELSE IF c >= 194 /\ c <= 223 THEN 1
    ELSE IF c >= 224 /\ c <= 239 THEN 2
    ELSE IF c >= 240 /\ c <= 244 THEN 3
    ELSE 0 - 1

\* whether b[i + k] continues the sequence that starts at b[i]
Utf8Cont(b, i, k) ==
    /\ i + k <= Len(b)
    /\ IF k > 1 THEN b[i + k] >= 128 /\ b[i + k] <= 191
       ELSE /\ b[i + 1] >= (IF b[i] = 224 THEN 160 ELSE IF b[i] = 240 THEN 144 ELSE 128)
            /\ b[i + 1] <= (IF b[i] = 237 THEN 159 ELSE IF b[i] = 244 THEN 143 ELSE 191)

\* the UTF-8 sequence that starts at b[i]: [ok, cp, n] when well formed (n bytes),
\* [ok |-> FALSE, n] with the n bytes the decoder reports as the error otherwise
Utf8At(b, i) ==
    With(Utf8Need(b[i]), LAMBDA need :
        IF need = 0 - 1 THEN [ok |-> FALSE, cp |-> 0, n |-> 1]
        ELSE With(Max({g \in 0..need : \A k \in 1..g : Utf8Cont(b, i, k)}), LAMBDA good :
            IF good = need
            THEN [ok |-> TRUE, n |-> need + 1,
                  cp |-> CASE need = 0 -> b[i]
                           [] need = 1 -> (b[i] - 192) * 64 + (b[i + 1] - 128)
                           [] need = 2 -> (b[i] - 224) * 4096 + (b[i + 1] - 128) * 64
                                          + (b[i + 2] - 128)
                           [] need = 3 -> (b[i] - 240) * 262144 + (b[i + 1] - 128) * 4096
                                          + (b[i + 2] - 128) * 64 + (b[i + 3] - 128)]
            ELSE IF i + good + 1 > Len(b)
            THEN [ok |-> FALSE, cp |-> 0, n |-> Len(b) - i + 1]
            ELSE [ok |-> FALSE, cp |-> 0, n |-> good + 1]))

\* whether the decoder, at the start of a sequence at b[j], later starts one at b[i]
RECURSIVE Utf8Reach(_, _, _)
Utf8Reach(b, j, i) ==
    IF j >= i THEN j = i
    ELSE With(j + Utf8At(b, j).n, LAMBDA next : Utf8Reach(b, next, i))

\* the code points of b: a sequence never spans an ASCII byte, so the decoder
\* starts one at every ASCII byte and, inside a run of other bytes, where the
\* sequences from the head of the run fall.  A malformed sequence gives
\* U+FFFD with replace, and fails the decoding without.
Utf8Decode(b, replace) ==
    With([i \in 1..Len(b) |->
            IF b[i] < 128 THEN b[i]
            ELSE IF ~Utf8Reach(b, Min({j \in 1..i : \A k \in j..i : b[k] >= 128}), i)
            THEN 0 - 1
            ELSE With(Utf8At(b, i), LAMBDA u : IF u.ok THEN u.cp ELSE 0 - 2)],
         LAMBDA marks :
        IF ~replace /\ \E i \in 1..Len(b) : marks[i] = 0 - 2
        THEN Raise("UnicodeDecodeError")
        ELSE With(SelectSeq(marks, LAMBDA c : c # 0 - 1), LAMBDA cps :
                Ok([i \in 1..Len(cps) |-> IF cps[i] = 0 - 2 THEN 65533 ELSE cps[i]])))

\* b.decode('utf-8'): strict
utf8_decode(b) == Utf8Decode(b, FALSE)

\* b.decode('utf-8', 'replace')
utf8_decode_replace(b) == Utf8Decode(b, TRUE).val

\* urllib.parse.unquote_to_bytes of an ASCII run: a '%' followed by two hex
\* digits is the byte they write
PercentAt(s, i) ==
    i >= 1 /\ i + 2 <= Len(s) /\ s[i] = 37 /\ IsHex(s[i + 1]) /\ IsHex(s[i + 2])

unquote_to_bytes(s) ==
    SelectSeq([i \in 1..Len(s) |->
                  IF PercentAt(s, i) THEN 16 * HexVal(s[i + 1]) + HexVal(s[i + 2])
                  ELSE IF PercentAt(s, i - 1) \/ PercentAt(s, i - 2) THEN 0 - 1
                  ELSE s[i]],
              LAMBDA c : c # 0 - 1)

\* urllib.parse.unquote(s): returned as it is without a '%'; else the ASCII
\* runs are percent-decoded and read as UTF-8 with errors='replace', the
\* other characters are kept
RECURSIVE unquote(_)
unquote(s) ==
    IF \A i \in 1..Len(s) : s[i] # 37 THEN s
    ELSE With(Min({k \in 0..Len(s) : k = Len(s) \/ (s[k + 1] < 128) # (s[1] < 128)}),
              LAMBDA n :
         With(Take(s, n), LAMBDA run :
         With(Drop(s, n), LAMBDA rest :
            (IF s[1] >= 128 THEN run
             ELSE With(unquote_to_bytes(run), LAMBDA b : utf8_decode_replace(b)))
            \o unquote(rest))))

\* json.loads of the vmess payload: an object whose values are scalars
\* (strings, integers, true, false, null), or one such scalar.  Results are
\* [ok, val, pos]: pos is the index after what was read.
JFail == [ok |-> FALSE, val |-> None, pos |-> 0]

\* the first index at or after i that holds no JSON whitespace
JSkipWs(s, i) ==
    IF i > Len(s) THEN i
    ELSE Min({j \in i..(Len(s) + 1) : j > Len(s) \/ s[j] \notin {32, 9, 10, 13}})

JHex4(s, i) ==
    IF i + 3 <= Len(s) /\ \A k \in 0..3 : IsHex(s[i + k])
    THEN 4096 * HexVal(s[i]) + 256 * HexVal(s[i + 1]) + 16 * HexVal(s[i + 2]) + HexVal(s[i + 3])
    ELSE 0 - 1

\* the character a one-letter escape stands for, -1 when it is none
JEscape(e) ==
    CASE e \in {34, 92, 47} -> e
      [] e = 98  -> 8
      [] e = 102 -> 12
      [] e = 110 -> 10
      [] e = 114 -> 13
      [] e = 116 -> 9
      [] OTHER   -> 0 - 1

\* the number of backslashes that stand immediately before index k of s
JBackslashes(s, k) == k - 1 - Max({j \in 0..(k - 1) : j = 0 \/ s[j] # 92})

\* whether an escape starts at index k of the string body b
JEscAt(b, k) == k >= 1 /\ k <= Len(b) /\ b[k] = 92 /\ JBackslashes(b, k) % 2 = 0

\* the code unit of the \uXXXX escape at index k of b, -1 when there is none
JUnitAt(b, k) == IF JEscAt(b, k) /\ k < Len(b) /\ b[k + 1] = 117 THEN JHex4(b, k + 2) ELSE 0 - 1

JIsHigh(u) == u >= 55296 /\ u <= 56319
JIsLow(u)  == u >= 56320 /\ u <= 57343

\* what index k of the body b contributes to the string: a code point, -1 for
\* nothing (the index is inside an escape, or is the low half of a surrogate
\* pair), -2 for an error (a control character, an escape that is none)
JMark(b, k) ==
    IF JEscAt(b, k)
    THEN IF b[k + 1] # 117 THEN (IF JEscape(b[k + 1]) >= 0 THEN JEscape(b[k + 1]) ELSE 0 - 2)
         ELSE With(JUnitAt(b, k), LAMBDA u :
                IF u < 0 THEN 0 - 2
                ELSE IF JIsHigh(u) /\ JIsLow(JUnitAt(b, k + 6))
                THEN 65536 + (u - 55296) * 1024 + (JUnitAt(b, k + 6) - 56320)
                ELSE IF JIsLow(u) /\ JIsHigh(JUnitAt(b, k - 6)) THEN 0 - 1
                ELSE u)
    ELSE IF JEscAt(b, k - 1) THEN 0 - 1
    ELSE IF \E j \in 2..5 : JUnitAt(b, k - j) >= 0 THEN 0 - 1
    ELSE IF b[k] < 32 THEN 0 - 2
    ELSE b[k]

\* the string literal whose body starts at index i (after the opening quote):
\* it ends at the first quote that no backslash escapes
JStrFrom(s, i) ==
    With({j \in i..Len(s) : s[j] = 34 /\ (j - 1 - Max({q \in (i - 1)..(j - 1) :
                                                        q = i - 1 \/ s[q] # 92})) % 2 = 0},
         LAMBDA ends :
    IF ends = {} THEN JFail
    ELSE With(Min(ends), LAMBDA end :
         With(SubSeq(s, i, end - 1), LAMBDA b :
         With([k \in 1..Len(b) |-> JMark(b, k)], LAMBDA marks :
            IF \E k \in 1..Len(b) : marks[k] = 0 - 2 THEN JFail
            ELSE [ok |-> TRUE, pos |-> end + 1,
                  val |-> StrV(SelectSeq(marks, LAMBDA c : c # 0 - 1))]))))

\* the length of the run of digits that starts at index i
JDigits(s, i) ==
    IF i > Len(s) THEN 0
    ELSE Min({n \in 0..(Len(s) - i + 1) : i + n > Len(s) \/ ~IsDigit(s[i + n])})

JLit(s, i, word) == i + Len(word) - 1 <= Len(s) /\ SubSeq(s, i, i + Len(word) - 1) = word

JValue(s, i) ==
    IF i > Len(s) THEN JFail
    ELSE IF s[i] = 34 THEN JStrFrom(s, i + 1)
    ELSE IF JLit(s, i, <<116, 114, 117, 101>>)
    THEN [ok |-> TRUE, val |-> BoolV(TRUE), pos |-> i + 4]
    ELSE IF JLit(s, i, <<102, 97, 108, 115, 101>>)
    THEN [ok |-> TRUE, val |-> BoolV(FALSE), pos |-> i + 5]
    ELSE IF JLit(s, i, <<110, 117, 108, 108>>)
    THEN [ok |-> TRUE, val |-> None, pos |-> i + 4]
    ELSE With(IF s[i] = 45 THEN i + 1 ELSE i, LAMBDA j :
         With(JDigits(s, j), LAMBDA n :
            IF n = 0 \/ (n > 1 /\ s[j] = 48) THEN JFail
            ELSE IF j + n <= Len(s) /\ s[j + n] \in {46, 101, 69} THEN JFail
            ELSE With(DigitsVal(SubSeq(s, j, j + n - 1)), LAMBDA x :
                    [ok |-> TRUE, pos |-> j + n,
                     val |-> IntV(IF s[i] = 45 THEN 0 - x ELSE x)])))

\* d[k] = x
DictSet(d, k, x) == [q \in DOMAIN d \cup {k} |-> IF q = k THEN x ELSE d[q]]

\* the pair "key": value at index i of s: [ok, key, val, pos], pos the index
\* of what follows the pair
JPair(s, i) ==
    IF i > Len(s) \/ s[i] # 34 THEN JFail
    ELSE With(JStrFrom(s, i + 1), LAMBDA k :
         IF ~k.ok THEN JFail
         ELSE With(JSkipWs(s, k.pos), LAMBDA c :
         IF ~(c <= Len(s) /\ s[c] = 58) THEN JFail
         ELSE With(JValue(s, JSkipWs(s, c + 1)), LAMBDA x :
         IF ~x.ok THEN JFail
         ELSE [ok |-> TRUE, key |-> k.val.v, val |-> x.val, pos |-> JSkipWs(s, x.pos)])))

\* the pairs of an object from index i (at a key), added to d; a repeated key
\* keeps its last value
RECURSIVE JPairs(_, _, _)
JPairs(s, i, d) ==
    With(JPair(s, i), LAMBDA p :
        IF ~p.ok \/ p.pos > Len(s) THEN JFail
        ELSE IF s[p.pos] = 125
        THEN [ok |-> TRUE, val |-> DictV(DictSet(d, p.key, p.val)), pos |-> p.pos + 1]
        ELSE IF s[p.pos] # 44 THEN JFail
        ELSE With(<<JSkipWs(s, p.pos + 1), DictSet(d, p.key, p.val)>>, LAMBDA n :
                JPairs(s, n[1], n[2])))

json_loads(s) ==
    With(JSkipWs(s, 1), LAMBDA i :
    With(IF i <= Len(s) /\ s[i] = 123
         THEN With(JSkipWs(s, i + 1), LAMBDA j :
                IF j <= Len(s) /\ s[j] = 125
                THEN [ok |-> TRUE, val |-> DictV(EmptyDict), pos |-> j + 1]
                ELSE JPairs(s, j, EmptyDict))
         ELSE JValue(s, i), LAMBDA r :
        IF r.ok /\ JSkipWs(s, r.pos) = Len(s) + 1 THEN Ok(r.val)
        ELSE Raise("JSONDecodeError")))

(***************************************************************************)
(* urllib.parse: urlparse and parse_qs                                     *)
(***************************************************************************)
\* the index of the first of '/', '?', '#' in url at or after index 3, or
\* Len(url) + 1: where _splitnetloc(url, 2) ends the netloc
NetlocEnd(url) ==
    IF Len(url) < 3 THEN Len(url) + 1
    ELSE Min({i \in 3..(Len(url) + 1) : i > Len(url) \/ url[i] \in {47, 63, 35}})

\* whether u[1..i-1] is a scheme and u[i] the ':' after it
IsScheme(u, i) ==
    /\ i > 1
    /\ IsAlpha(u[1])
    /\ \A k \in 1..(i - 1) : IsAlpha(u[k]) \/ IsDigit(u[k]) \/ u[k] \in {43, 45, 46}

\* urlsplit's url.lstrip(_WHATWG_C0_CONTROL_OR_SPACE): C0 controls and space
IsC0OrSpace(c) == c <= 32

\* urlparse(link): the netloc, query and fragment of the result, or the
\* ValueError of an unbalanced '[' or ']' in the netloc
urlparse(link) ==
    With(Remove(LStripOf(link, IsC0OrSpace), {9, 10, 13}), LAMBDA u0 :
    With(Find(u0, 58), LAMBDA i :
    With(IF IsScheme(u0, i) THEN Drop(u0, i) ELSE u0, LAMBDA u1 :
    With(Len(u1) >= 2 /\ u1[1] = 47 /\ u1[2] = 47, LAMBDA hasn :
    With(NetlocEnd(u1), LAMBDA e :
    With(IF hasn THEN SubSeq(u1, 3, e - 1) ELSE <<>>, LAMBDA netloc :
    With(Partition(IF hasn THEN Drop(u1, e - 1) ELSE u1, 35), LAMBDA f :
    With(Partition(f[1], 63), LAMBDA q :
        IF (Find(netloc, 91) > 0) # (Find(netloc, 93) > 0) THEN Raise("ValueError")
        ELSE Ok([netloc |-> netloc, query |-> q[3], fragment |-> f[3]])))))))))

\* ParseResult._hostinfo: <<hostname, port>> as written in the netloc
HostInfo(netloc) ==
    With(RPartition(netloc, 64)[3], LAMBDA hostinfo :
    With(Partition(hostinfo, 91), LAMBDA br :
        IF br[2]
        THEN With(Partition(br[3], 93), LAMBDA cl : <<cl[1], Partition(cl[3], 58)[3]>>)
        ELSE With(Partition(hostinfo, 58), LAMBDA hp : <<hp[1], hp[3]>>)))

\* ParseResult.hostname: lower-cased, None when empty
Hostname(netloc) ==
    With(HostInfo(netloc)[1], LAMBDA h : IF h = <<>> THEN None ELSE StrV(Lower(h)))

\* ParseResult.port: None when absent, ValueError when not a number in 0..65535
Port(netloc) ==
    With(HostInfo(netloc)[2], LAMBDA p :
        IF p = <<>> THEN Ok(None)
        ELSE IF ~(\A i \in 1..Len(p) : IsDigit(p[i])) THEN Raise("ValueError")
        ELSE With(DigitsVal(p), LAMBDA n :
                IF n > 65535 THEN Raise("ValueError") ELSE Ok(IntV(n))))

\* ParseResult.username: None without an '@'
Username(netloc) ==
    With(RPartition(netloc, 64), LAMBDA ui :
        IF ui[2] THEN StrV(Partition(ui[1], 58)[1]) ELSE None)

\* s.replace('+', ' ')
PlusToSpace(s) == [i \in 1..Len(s) |-> IF s[i] = 43 THEN 32 ELSE s[i]]

\* parse_qs(query): name -> list of values in the order of the query; a field
\* without '=' or with an empty value is dropped
parse_qs(query) ==
    With(Split(query, 38), LAMBDA fields :
    With(SelectSeq([f \in DOMAIN fields |-> Partition(fields[f], 61)],
                   LAMBDA nv : nv[2] /\ nv[3] # <<>>), LAMBDA kept :
    With([f \in DOMAIN kept |->
            <<unquote(PlusToSpace(kept[f][1])), StrV(unquote(PlusToSpace(kept[f][3])))>>],
         LAMBDA pairs :
        [k \in {pairs[f][1] : f \in DOMAIN pairs} |->
            ListV(With(SelectSeq(pairs, LAMBDA p : p[1] = k), LAMBDA mine :
                     [f \in DOMAIN mine |-> mine[f][2]]))])))

(***************************************************************************)
(* xray_parser.py                                                          *)
(***************************************************************************)
\* the string literals of the source, as code points
Lit == [
    net |-> <<110, 101, 116>>,                               \* "net"
    type |-> <<116, 121, 112, 101>>,                         \* "type"
    tcp |-> <<116, 99, 112>>,                                \* "tcp"
    tls |-> <<116, 108, 115>>,                               \* "tls"
    security |-> <<115, 101, 99, 117, 114, 105, 116, 121>>,  \* "security"
    none |-> <<110, 111, 110, 101>>,                         \* "none"
    mark |-> <<109, 97, 114, 107>>,                          \* "mark"
    tcpFastOpen |-> <<116, 99, 112, 70, 97, 115, 116, 79, 112, 101, 110>>, \* "tcpFastOpen"
    tproxy |-> <<116, 112, 114, 111, 120, 121>>,             \* "tproxy"
    headerType |-> <<104, 101, 97, 100, 101, 114, 84, 121, 112, 101>>, \* "headerType"
    http |-> <<104, 116, 116, 112>>,                         \* "http"
    host |-> <<104, 111, 115, 116>>,                         \* "host"
    path |-> <<112, 97, 116, 104>>,                          \* "path"
    slash |-> <<47>>,                                        \* "/"
    kcp |-> <<107, 99, 112>>,                                \* "kcp"
    mtu |-> <<109, 116, 117>>,                               \* "mtu"
    tti |-> <<116, 116, 105>>,                               \* "tti"
    uplinkCapacity |-> <<117, 112, 108, 105, 110, 107, 67, 97, 112, 97, 99, 105, 116, 121>>, \* "uplinkCapacity"
    downlinkCapacity |-> <<100, 111, 119, 110, 108, 105, 110, 107, 67, 97, 112, 97, 99, 105, 116, 121>>, \* "downlinkCapacity"
    congestion |-> <<99, 111, 110, 103, 101, 115, 116, 105, 111, 110>>, \* "congestion"
    readBufferSize |-> <<114, 101, 97, 100, 66, 117, 102, 102, 101, 114, 83, 105, 122, 101>>, \* "readBufferSize"
    writeBufferSize |-> <<119, 114, 105, 116, 101, 66, 117, 102, 102, 101, 114, 83, 105, 122, 101>>, \* "writeBufferSize"
    ws |-> <<119, 115>>,                                     \* "ws"
    h2 |-> <<104, 50>>,                                      \* "h2"
    httpupgrade |-> <<104, 116, 116, 112, 117, 112, 103, 114, 97, 100, 101>>, \* "httpupgrade"
    quic |-> <<113, 117, 105, 99>>,                          \* "quic"
    quicSecurity |-> <<113, 117, 105, 99, 83, 101, 99, 117, 114, 105, 116, 121>>, \* "quicSecurity"
    key |-> <<107, 101, 121>>,                               \* "key"
    grpc |-> <<103, 114, 112, 99>>,                          \* "grpc"
    serviceName |-> <<115, 101, 114, 118, 105, 99, 101, 78, 97, 109, 101>>, \* "serviceName"
    mode |-> <<109, 111, 100, 101>>,                         \* "mode"
    multi |-> <<109, 117, 108, 116, 105>>,                   \* "multi"
    xtls |-> <<120, 116, 108, 115>>,                         \* "xtls"
    sni |-> <<115, 110, 105>>,                               \* "sni"
    peer |-> <<112, 101, 101, 114>>,                         \* "peer"
    alpn |-> <<97, 108, 112, 110>>,                          \* "alpn"
    fp |-> <<102, 112>>,                                     \* "fp"
    allowInsecure |-> <<97, 108, 108, 111, 119, 73, 110, 115, 101, 99, 117, 114, 101>>, \* "allowInsecure"
    flow |-> <<102, 108, 111, 119>>,                         \* "flow"
    reality |-> <<114, 101, 97, 108, 105, 116, 121>>,        \* "reality"
    chrome |-> <<99, 104, 114, 111, 109, 101>>,              \* "chrome"
    pbk |-> <<112, 98, 107>>,                                \* "pbk"
    sid |-> <<115, 105, 100>>,                               \* "sid"
    spx |-> <<115, 112, 120>>,                               \* "spx"
    true |-> <<116, 114, 117, 101>>,                         \* "true"
    add |-> <<97, 100, 100>>,                                \* "add"
    ps |-> <<112, 115>>,                                     \* "ps"
    port |-> <<112, 111, 114, 116>>,                         \* "port"
    id |-> <<105, 100>>,                                     \* "id"
    aid |-> <<97, 105, 100>>,                                \* "aid"
    scy |-> <<115, 99, 121>>,                                \* "scy"
    auto |-> <<97, 117, 116, 111>>,                          \* "auto"
    encryption |-> <<101, 110, 99, 114, 121, 112, 116, 105, 111, 110>>, \* "encryption"
    outbound_ |-> <<111, 117, 116, 98, 111, 117, 110, 100, 95>>, \* "outbound_"
    vmess_ |-> <<118, 109, 101, 115, 115, 58, 47, 47>>,      \* "vmess://"
    vless_ |-> <<118, 108, 101, 115, 115, 58, 47, 47>>,      \* "vless://"
    trojan_ |-> <<116, 114, 111, 106, 97, 110, 58, 47, 47>>, \* "trojan://"
    ss_ |-> <<115, 115, 58, 47, 47>>,                        \* "ss://"
    vmess |-> <<118, 109, 101, 115, 115>>,                   \* "vmess"
    vless |-> <<118, 108, 101, 115, 115>>,                   \* "vless"
    trojan |-> <<116, 114, 111, 106, 97, 110>>,              \* "trojan"
    shadowsocks |-> <<115, 104, 97, 100, 111, 119, 115, 111, 99, 107, 115>>, \* "shadowsocks"
    unnamed_config |-> <<117, 110, 110, 97, 109, 101, 100, 95, 99, 111, 110, 102, 105, 103>>, \* "unnamed_config"
    json |-> <<46, 106, 115, 111, 110>>,                     \* ".json"
    pad |-> <<61, 61>>,                                      \* "=="
    empty |-> <<>> ]                                         \* ""

\* x == "literal"
PyEq(x, s) == x.t = "str" /\ x.v = s

\* params.get(key)
DictGet(params, key) == IF key \in DOMAIN params THEN params[key] ELSE None

get_param(params, key, default) ==
    With(DictGet(params, key), LAMBDA val :
        IF val.t = "None" THEN default
        ELSE IF val.t = "list" THEN val.v[1]
        ELSE val)

\* the first exception of a sequence of results, in evaluation order
FirstRaise(rs) ==
    With({i \in 1..Len(rs) : ~rs[i].ok}, LAMBDA bad :
        IF bad = {} THEN Ok(None) ELSE rs[Min(bad)])

\* x.split(','): AttributeError unless x is a str
PySplitComma(x) ==
    IF x.t # "str" THEN Raise("AttributeError")
    ELSE With(Split(x.v, 44), LAMBDA p : Ok(ListV([i \in 1..Len(p) |-> StrV(p[i])])))

\* lines 40-45: the sockopt block, or the exception of int(mark)
Sockopt(params) ==
    With(<<get_param(params, Lit.mark, None),
           get_param(params, Lit.tcpFastOpen, None),
           get_param(params, Lit.tproxy, None)>>, LAMBDA p :
    With(IF Truthy(p[1]) THEN PyInt(p[1]) ELSE Ok(None), LAMBDA m :
        IF ~m.ok THEN m
        ELSE Ok((IF Truthy(p[1]) THEN [mark |-> m.val] ELSE EmptyDict)
             @@ (IF Truthy(p[2]) THEN [tcpFastOpen |-> BoolV(InTrueList(p[2]))] ELSE EmptyDict)
             @@ (IF Truthy(p[3]) THEN [tproxy |-> p[3]] ELSE EmptyDict))))

\* lines 48-58: network == "tcp"
TransportTcp(params, default_host, header_type) ==
    IF ~PyEq(header_type, Lit.http) THEN Ok(EmptyDict)
    ELSE With(PySplitComma(get_param(params, Lit.path, StrV(Lit.slash))), LAMBDA path :
            IF ~path.ok THEN path
            ELSE Ok([tcpSettings |-> DictV([header |-> DictV(
                     [type |-> StrV(Lit.http),
                      request |-> DictV(
                         [path |-> path.val,
                          headers |-> DictV([Host |-> ListV(<<
                              get_param(params, Lit.host, default_host)>>)])])])])]))

\* lines 59-69: network == "kcp"
TransportKcp(params, header_type) ==
    With([k \in 1..6 |->
             PyInt(get_param(params,
                             <<Lit.mtu, Lit.tti, Lit.uplinkCapacity, Lit.downlinkCapacity,
                               Lit.readBufferSize, Lit.writeBufferSize>>[k],
                             IntV(<<1350, 50, 5, 20, 2, 2>>[k])))], LAMBDA n :
    With(FirstRaise(n), LAMBDA bad :
        IF ~bad.ok THEN bad
        ELSE Ok([kcpSettings |-> DictV(
                 [mtu |-> n[1].val, tti |-> n[2].val,
                  uplinkCapacity |-> n[3].val, downlinkCapacity |-> n[4].val,
                  congestion |-> BoolV(InTrueList(get_param(params, Lit.congestion,
                                                            BoolV(FALSE)))),
                  readBufferSize |-> n[5].val, writeBufferSize |-> n[6].val,
                  header |-> DictV([type |-> header_type]),
                  seed |-> get_param(params, Lit.path, None)])])))

\* lines 48-95: the transport sub-block selected by network (a dict with at
\* most one key), or the exception raised while building it
Transport(params, default_host, network) ==
    With(<<get_param(params, Lit.headerType, StrV(Lit.none)),
           get_param(params, Lit.path, StrV(Lit.slash)),
           get_param(params, Lit.host, default_host)>>, LAMBDA p :
        IF PyEq(network, Lit.tcp) THEN TransportTcp(params, default_host, p[1])
        ELSE IF PyEq(network, Lit.kcp) THEN TransportKcp(params, p[1])
        ELSE IF PyEq(network, Lit.ws)
        THEN Ok([wsSettings |-> DictV([path |-> p[2], Host |-> p[3]])])
        ELSE IF PyEq(network, Lit.h2)
        THEN Ok([httpSettings |-> DictV([host |-> ListV(<<p[3]>>), path |-> p[2]])])
        ELSE IF PyEq(network, Lit.httpupgrade)
        THEN Ok([httpUpgradeSettings |-> DictV([path |-> p[2], host |-> p[3]])])
        ELSE IF PyEq(network, Lit.quic)
        THEN Ok([quicSettings |-> DictV(
                 [security |-> get_param(params, Lit.quicSecurity, StrV(Lit.none)),
                  key |-> get_param(params, Lit.key, StrV(Lit.empty)),
                  header |-> DictV([type |-> p[1]])])])
        ELSE IF PyEq(network, Lit.grpc)
        THEN Ok([grpcSettings |-> DictV(
                 [serviceName |-> get_param(params, Lit.serviceName, StrV(Lit.empty)),
                  multiMode |-> BoolV(PyEq(get_param(params, Lit.mode, None), Lit.multi))])])
        ELSE Ok(EmptyDict))

\* lines 99 and 112: sni = get_param(params, "sni", get_param(params, "peer", default_host))
ServerName(params, default_host) ==
    get_param(params, Lit.sni, get_param(params, Lit.peer, default_host))

\* lines 98-110: security in ["tls", "xtls"]
SecurityTls(params, default_host, security) ==
    With(<<get_param(params, Lit.alpn, StrV(Lit.empty)),
           get_param(params, Lit.fp, StrV(Lit.empty)),
           get_param(params, Lit.flow, None)>>, LAMBDA p :
    With(IF Truthy(p[1]) THEN PySplitComma(p[1]) ELSE Ok(None), LAMBDA al :
        IF ~al.ok THEN al
        ELSE With([serverName |-> ServerName(params, default_host),
                   allowInsecure |-> BoolV(InTrueList(get_param(params, Lit.allowInsecure,
                                                                BoolV(FALSE))))]
                  @@ (IF Truthy(p[1]) THEN [alpn |-> al.val] ELSE EmptyDict)
                  @@ (IF Truthy(p[2]) THEN [fingerprint |-> p[2]] ELSE EmptyDict)
                  @@ (IF PyEq(security, Lit.xtls) /\ Truthy(p[3])
                      THEN [flow |-> p[3]] ELSE EmptyDict), LAMBDA ss :
                IF PyEq(security, Lit.tls) THEN Ok([tlsSettings |-> DictV(ss)])
                ELSE Ok([xtlsSettings |-> DictV(ss)]))))

\* lines 98-119: the security sub-block selected by security, or the
\* exception of alpn.split
Security(params, default_host, security) ==
    IF PyEq(security, Lit.tls) \/ PyEq(security, Lit.xtls)
    THEN SecurityTls(params, default_host, security)
    ELSE IF PyEq(security, Lit.reality)
    THEN Ok([realitySettings |-> DictV(
             [serverName |-> ServerName(params, default_host),
              fingerprint |-> get_param(params, Lit.fp, StrV(Lit.chrome)),
              publicKey |-> get_param(params, Lit.pbk, StrV(Lit.empty)),
              shortId |-> get_param(params, Lit.sid, StrV(Lit.empty)),
              spiderX |-> get_param(params, Lit.spx, StrV(Lit.slash))])])
    ELSE Ok(EmptyDict)

\* build_stream_settings(params, default_host): the streamSettings dict, or
\* the exception it raises
build_stream_settings(params, default_host) ==
    With(<<PyOr(get_param(params, Lit.net, None),
                get_param(params, Lit.type, StrV(Lit.tcp))),
           PyOr(get_param(params, Lit.tls, None),
                get_param(params, Lit.security, StrV(Lit.none)))>>, LAMBDA ns :
    With(<<Sockopt(params), Transport(params, default_host, ns[1]),
           Security(params, default_host, ns[2])>>, LAMBDA part :
    With(FirstRaise(part), LAMBDA bad :
        IF ~bad.ok THEN bad
        ELSE Ok(DictV([network |-> ns[1], security |-> ns[2]]
                      @@ (IF DOMAIN part[1].val # {}
                          THEN [sockopt |-> DictV(part[1].val)] ELSE EmptyDict)
                      @@ part[2].val @@ part[3].val)))))

\* d.get(key, default) of a dict
DictGetDefault(d, key, default) == IF key \in DOMAIN d THEN d[key] ELSE default

\* "outbound_" + tag: TypeError unless tag is a str
OutboundTag(tag) ==
    IF tag.t = "str" THEN Ok(StrV(Lit.outbound_ \o tag.v)) ELSE Raise("TypeError")

\* the dict every decoder returns
Config(protocol, settings, stream, tag, remarks) ==
    DictV([outbounds |-> ListV(<<DictV(
               [protocol |-> StrV(protocol), settings |-> DictV(settings), tag |-> tag]
               @@ stream)>>),
           remarks |-> remarks])
\* parse_vmess(link): the config, or None after any exception
parse_vmess(link) ==
    With(b64decode(Drop(link, 8)), LAMBDA raw :
    IF ~raw.ok THEN None
    ELSE With(utf8_decode(raw.val), LAMBDA text :
    IF ~text.ok THEN None
    ELSE With(json_loads(text.val), LAMBDA json :
    IF ~json.ok \/ json.val.t # "dict" THEN None
    ELSE With(json.val.v, LAMBDA vmess_data :
         With(DictGetDefault(vmess_data, Lit.add, StrV(Lit.empty)), LAMBDA address :
         With(DictGetDefault(vmess_data, Lit.ps, address), LAMBDA tag :
         With(PyInt(DictGetDefault(vmess_data, Lit.port, IntV(0))), LAMBDA port :
         With(PyInt(DictGetDefault(vmess_data, Lit.aid, IntV(0))), LAMBDA alterId :
         With(build_stream_settings(vmess_data, address), LAMBDA stream :
         With(OutboundTag(tag), LAMBDA otag :
            IF ~port.ok \/ ~alterId.ok \/ ~stream.ok \/ ~otag.ok THEN None
            ELSE Config(Lit.vmess,
                        [vnext |-> ListV(<<DictV(
                            [address |-> address, port |-> port.val,
                             users |-> ListV(<<DictV(
                                [id |-> DictGetDefault(vmess_data, Lit.id, StrV(Lit.empty)),
                                 alterId |-> alterId.val,
                                 security |-> DictGetDefault(vmess_data, Lit.scy,
                                                             StrV(Lit.auto)),
                                 level |-> IntV(0)])>>)])>>)],
                        [streamSettings |-> stream.val], otag.val, tag)))))))))))

\* lines 150-153 and 174-177: the URI fields vless and trojan read
UriFields(link) ==
    With(urlparse(link), LAMBDA u :
    IF ~u.ok THEN u
    ELSE With(PyOr(Hostname(u.val.netloc), StrV(Lit.empty)), LAMBDA address :
         With(Port(u.val.netloc), LAMBDA port :
            IF ~port.ok THEN port
            ELSE Ok([params   |-> parse_qs(u.val.query),
                     address  |-> address,
                     tag      |-> IF u.val.fragment # <<>>
                                  THEN StrV(unquote(u.val.fragment)) ELSE address,
                     port     |-> PyInt(PyOr(port.val, IntV(0))).val,
                     username |-> PyOr(Username(u.val.netloc), StrV(Lit.empty))]))))

\* parse_vless(link): the config, or None after any exception
parse_vless(link) ==
    With(UriFields(link), LAMBDA f :
    IF ~f.ok THEN None
    ELSE With(build_stream_settings(f.val.params, f.val.address), LAMBDA stream :
        IF ~stream.ok THEN None
        ELSE Config(Lit.vless,
                    [vnext |-> ListV(<<DictV(
                        [address |-> f.val.address, port |-> f.val.port,
                         users |-> ListV(<<DictV(
                            [id |-> f.val.username,
                             encryption |-> get_param(f.val.params, Lit.encryption,
                                                      StrV(Lit.none)),
                             flow |-> get_param(f.val.params, Lit.flow,
                                                StrV(Lit.empty))])>>)])>>)],
                    [streamSettings |-> stream.val],
                    OutboundTag(f.val.tag).val, f.val.tag)))

\* parse_trojan(link): the config, or None after any exception
parse_trojan(link) ==
    With(UriFields(link), LAMBDA f :
    IF ~f.ok THEN None
    ELSE With(build_stream_settings(f.val.params, f.val.address), LAMBDA stream :
        IF ~stream.ok THEN None
        ELSE Config(Lit.trojan,
                    [servers |-> ListV(<<DictV(
                        [address |-> f.val.address, port |-> f.val.port,
                         password |-> f.val.username])>>)],
                    [streamSettings |-> stream.val],
                    OutboundTag(f.val.tag).val, f.val.tag)))

\* urlsafe_b64decode(s + "==").decode('utf-8')
SsDecode(s) ==
    With(urlsafe_b64decode(s \o Lit.pad), LAMBDA raw :
        IF raw.ok THEN utf8_decode(raw.val) ELSE raw)

\* lines 198-204: the branch taken when the link starts with "ss://"
SsUri(link) ==
    With(urlparse(link), LAMBDA u :
    IF ~u.ok THEN u
    ELSE With(SsDecode(u.val.netloc), LAMBDA decoded :
    IF ~decoded.ok THEN decoded
    ELSE With(Partition(decoded.val, 58), LAMBDA mp :
         With(Hostname(u.val.netloc), LAMBDA address :
         With(Port(u.val.netloc), LAMBDA port :
            IF ~mp[2] THEN Raise("ValueError")
            ELSE IF ~port.ok THEN port
            ELSE Ok([method |-> StrV(mp[1]), password |-> StrV(mp[3]),
                     address |-> address, port |-> port.val,
                     tag |-> IF u.val.fragment # <<>>
                             THEN StrV(unquote(u.val.fragment)) ELSE address]))))))

\* lines 205-212: the branch commented "SIP002 format ss://BASE64#TAG"
SsSip002(link) ==
    With(Split(Drop(link, 5), 35), LAMBDA full_b64 :
    With(SsDecode(full_b64[1]), LAMBDA decoded :
    IF ~decoded.ok THEN decoded
    ELSE With(Partition(decoded.val, 58), LAMBDA mr :
         With(RPartition(mr[3], 64), LAMBDA ps :
         With(Partition(ps[3], 58), LAMBDA ap :
         With(IntOfStr(ap[3]), LAMBDA port :
            IF ~mr[2] \/ ~ps[2] \/ ~ap[2] THEN Raise("ValueError")
            ELSE IF ~port.ok THEN port
            ELSE Ok([method |-> StrV(mr[1]), password |-> StrV(ps[1]),
                     address |-> StrV(ap[1]), port |-> port.val,
                     tag |-> IF Len(full_b64) > 1
                             THEN StrV(unquote(full_b64[2])) ELSE StrV(ap[1])])))))))

\* line 198: which branch parse_ss takes
SsFields(link) == IF StartsWith(link, Lit.ss_) THEN SsUri(link) ELSE SsSip002(link)

\* parse_ss(link): the config, or None after any exception
parse_ss(link) ==
    With(SsFields(link), LAMBDA f :
    IF ~f.ok THEN None
    ELSE With(OutboundTag(f.val.tag), LAMBDA otag :
        IF ~otag.ok THEN None
        ELSE Config(Lit.shadowsocks,
                    [servers |-> ListV(<<DictV(
                        [method |-> f.val.method, password |-> f.val.password,
                         address |-> f.val.address, port |-> f.val.port])>>)],
                    EmptyDict, otag.val, f.val.tag)))

\* \w of the second pattern of sanitize_filename; the code points above 127
\* are taken as letters, but for the surrogates and U+FFFD
IsWord(c) ==
    \/ IsAlpha(c) \/ IsDigit(c) \/ c = 95
    \/ c > 127 /\ ~IsSpace(c) /\ ~(c >= 55296 /\ c <= 57343) /\ c # 65533

\* a character of the class [\s/\\|:<>*?"\'] of the first pattern
IsUnsafe(c) == IsSpace(c) \/ c \in {47, 92, 124, 58, 60, 62, 42, 63, 34, 39}

\* re.sub(r'[\s/\\|:<>*?"\']+', '_', name): each run becomes one '_'
SubRuns(s) ==
    SelectSeq([i \in 1..Len(s) |->
                  IF ~IsUnsafe(s[i]) THEN s[i]
                  ELSE IF i > 1 /\ IsUnsafe(s[i - 1]) THEN 0 - 1
                  ELSE 95],
              LAMBDA c : c # 0 - 1)

\* re.sub(r'[^\w\-_.]', '', name)
KeepSafe(s) == SelectSeq(s, LAMBDA c : IsWord(c) \/ c \in {45, 95, 46})

sanitize_filename(name) ==
    IF name = <<>> THEN Lit.unnamed_config
    ELSE With(KeepSafe(SubRuns(name)), LAMBDA n :
            IF n = <<>> THEN Lit.unnamed_config ELSE n)

\* whether writing x as UTF-8 fails: a str of x holds a lone surrogate
RECURSIVE HasSurrogate(_)
HasSurrogate(x) ==
    CASE x.t = "str"  -> \E i \in 1..Len(x.v) : x.v[i] >= 55296 /\ x.v[i] <= 57343
      [] x.t = "list" -> \E i \in 1..Len(x.v) : HasSurrogate(x.v[i])
      [] x.t = "dict" -> \E k \in DOMAIN x.v : HasSurrogate(x.v[k])
      [] OTHER        -> FALSE

\* the directory fs after filename was opened for writing and config written
\* to it, wholly (done) or in part
WriteFile(fs, filename, config, done) ==
    [f \in DOMAIN fs \cup {filename} |->
        IF f = filename THEN [content |-> config, complete |-> done] ELSE fs[f]]

\* save_config_to_file(config) in directory fs, with the file system answering
\* io ("ok", "open_error": open raises IOError, "write_error": a write raises
\* IOError).  [fs: the directory after, out: what was printed, raised: an
\* exception left the function]
save_config_to_file(config, fs, io) ==
    IF ~Truthy(config) \/ "remarks" \notin DOMAIN config.v
    THEN [fs |-> fs, out |-> "invalid", raised |-> FALSE]
    ELSE With(sanitize_filename(config.v.remarks.v) \o Lit.json, LAMBDA filename :
            IF io = "open_error" THEN [fs |-> fs, out |-> "write_error", raised |-> FALSE]
            ELSE IF io = "write_error"
            THEN [fs |-> WriteFile(fs, filename, config, FALSE),
                  out |-> "write_error", raised |-> FALSE]
            ELSE IF HasSurrogate(config)
            THEN [fs |-> WriteFile(fs, filename, config, FALSE),
                  out |-> "none", raised |-> TRUE]
            ELSE [fs |-> WriteFile(fs, filename, config, TRUE),
                  out |-> "created", raised |-> FALSE])

(***************************************************************************)
(* The inputs: share links as subscription servers write them              *)
(***************************************************************************)
B64Char(v, urlsafe) ==
    IF v < 26 THEN 65 + v
    ELSE IF v < 52 THEN 71 + v
    ELSE IF v < 62 THEN v - 4
    ELSE IF v = 62 THEN (IF urlsafe THEN 45 ELSE 43)
    ELSE (IF urlsafe THEN 95 ELSE 47)

\* base64 of the bytes: four characters for each three bytes, padded with '='
B64Encode(bytes, urlsafe) ==
    With(bytes, LAMBDA b :
        [k \in 1..(4 * ((Len(b) + 2) \div 3)) |->
            With(3 * ((k - 1) \div 4), LAMBDA g :
            With([j \in 1..3 |-> IF g + j <= Len(b) THEN b[g + j] ELSE 0], LAMBDA x :
                CASE (k - 1) % 4 = 0 -> B64Char(x[1] \div 4, urlsafe)
                  [] (k - 1) % 4 = 1 -> B64Char((x[1] % 4) * 16 + (x[2] \div 16), urlsafe)
                  [] (k - 1) % 4 = 2 -> IF g + 2 > Len(b) THEN 61
                                        ELSE B64Char((x[2] % 16) * 4 + (x[3] \div 64), urlsafe)
                  [] (k - 1) % 4 = 3 -> IF g + 3 > Len(b) THEN 61
                                        ELSE B64Char(x[3] % 64, urlsafe)))])

\* base64 without its padding
B64EncodeBare(b, urlsafe) == Remove(B64Encode(b, urlsafe), {61})

\* str(n) for n >= 0
RECURSIVE IntToStr(_)
IntToStr(n) == IF n < 10 THEN <<48 + n>> ELSE IntToStr(n \div 10) \o <<48 + (n % 10)>>

\* "#" + tag, nothing for an empty tag
Fragment(tag) == IF tag = <<>> THEN <<>> ELSE <<35>> \o tag

\* the legacy shadowsocks link of server srv: ss://BASE64(method:password)@host:port#tag
LegacyLink(srv, padded) ==
    Lit.ss_
    \o (IF padded THEN B64Encode(srv.method \o <<58>> \o srv.password, TRUE)
        ELSE B64EncodeBare(srv.method \o <<58>> \o srv.password, TRUE))
    \o <<64>> \o srv.address \o <<58>> \o IntToStr(srv.port) \o Fragment(srv.tag)

\* the SIP002 link of server srv: ss://BASE64(method:password@host:port)#tag
Sip002Link(srv) ==
    Lit.ss_
    \o B64EncodeBare(srv.method \o <<58>> \o srv.password \o <<64>> \o srv.address
                     \o <<58>> \o IntToStr(srv.port), TRUE)
    \o Fragment(srv.tag)

\* Vless://id@h.io:443#u  (the scheme is not in lower case)
LinkUnsupported ==
    <<86, 108, 101, 115, 115, 58, 47, 47, 105, 100, 64, 104, 46, 105, 111, 58,
    52, 52, 51, 35, 117>>
\* vless://id@h.io:443?security=tls&sni=s.io#v
LinkVless ==
    <<118, 108, 101, 115, 115, 58, 47, 47, 105, 100, 64, 104, 46, 105, 111,
    58, 52, 52, 51, 63, 115, 101, 99, 117, 114, 105, 116, 121, 61, 116, 108,
    115, 38, 115, 110, 105, 61, 115, 46, 105, 111, 35, 118>>
\* trojan://pw@h.io:443?type=ws  (no fragment)
LinkTrojan ==
    <<116, 114, 111, 106, 97, 110, 58, 47, 47, 112, 119, 64, 104, 46, 105,
    111, 58, 52, 52, 51, 63, 116, 121, 112, 101, 61, 119, 115>>
\* vless://id@h.io:443?mark=x#m  (mark is not a number)
LinkBadMark ==
    <<118, 108, 101, 115, 115, 58, 47, 47, 105, 100, 64, 104, 46, 105, 111,
    58, 52, 52, 51, 63, 109, 97, 114, 107, 61, 120, 35, 109>>
\* {"ps":"n","add":"h.io","port":"443","id":"u","net":"ws","tls":"tls","sni":""}
VmessJson ==
    <<123, 34, 112, 115, 34, 58, 34, 110, 34, 44, 34, 97, 100, 100, 34, 58,
    34, 104, 46, 105, 111, 34, 44, 34, 112, 111, 114, 116, 34, 58, 34, 52, 52,
    51, 34, 44, 34, 105, 100, 34, 58, 34, 117, 34, 44, 34, 110, 101, 116, 34,
    58, 34, 119, 115, 34, 44, 34, 116, 108, 115, 34, 58, 34, 116, 108, 115,
    34, 44, 34, 115, 110, 105, 34, 58, 34, 34, 125>>
\* {"ps":"a\ud83d","add":"h.io","port":443}  (ps ends in half of an emoji)
VmessJsonSurrogate ==
    <<123, 34, 112, 115, 34, 58, 34, 97, 92, 117, 100, 56, 51, 100, 34, 44,
    34, 97, 100, 100, 34, 58, 34, 104, 46, 105, 111, 34, 44, 34, 112, 111,
    114, 116, 34, 58, 52, 52, 51, 125>>

\* a shadowsocks server: aes:pw at h.io:8388, tagged "s"
SsServer == [method |-> <<97, 101, 115>>, password |-> <<112, 119>>,
             address |-> <<104, 46, 105, 111>>, port |-> 8388, tag |-> <<115>>]

LinkVmess == Lit.vmess_ \o B64Encode(VmessJson, FALSE)
LinkVmessSurrogate == Lit.vmess_ \o B64Encode(VmessJsonSurrogate, FALSE)
LinkSsSip002 == Sip002Link(SsServer)

\* the links a subscription is made of
LinkUniverse ==
    {LinkUnsupported, LinkVless, LinkTrojan, LinkBadMark,
     LinkVmess, LinkVmessSurrogate, LinkSsSip002}

MaxLinks == 3

\* the subscriptions: up to MaxLinks links
LinkLists == UNION {[1..n -> LinkUniverse] : n \in 1..MaxLinks}

\* the lines of a subscription, each ended by a line feed
RECURSIVE JoinLines(_)
JoinLines(ls) == IF ls = <<>> THEN <<>> ELSE Head(ls) \o <<10>> \o JoinLines(Tail(ls))

\* what the subscription URL answers: no answer ("error": a timeout, a
\* connection error, a status of 4xx or 5xx), or a body that is not base64,
\* is base64 of bytes that are not UTF-8, is base64 of blank lines, or is
\* base64 of the lines of a subscription
BodyNotBase64 == <<101, 114, 114, 111, 114>>               \* error
BodyNotUtf8 == B64Encode(<<255, 254, 10>>, FALSE)
BodyBlank == B64Encode(<<10, 32, 32, 13, 10, 9, 10>>, FALSE)

\* the subscriptions the URL may answer with
Subscriptions ==
    [kind : {"error"}, content : {<<>>}]
    \cup [kind : {"not_base64"}, content : {BodyNotBase64}]
    \cup [kind : {"not_utf8"}, content : {BodyNotUtf8}]
    \cup [kind : {"blank"}, content : {BodyBlank}]
    \cup {[kind |-> "links", content |-> B64Encode(JoinLines(ls), FALSE)] : ls \in LinkLists}

(***************************************************************************)
(* main.py                                                                 *)
(***************************************************************************)
\* a line boundary of str.splitlines()
IsLineEnd(c) == c \in {10, 11, 12, 13, 28, 29, 30, 133, 8232, 8233}

\* decoded_content.splitlines(): the pieces between line boundaries, "\r\n"
\* being one boundary, and no empty piece after the last boundary
SplitLines(s) ==
    With(Where(s, IsLineEnd), LAMBDA h :
    With(SelectSeq([k \in 1..(Len(h) + 1) |->
                       [from |-> IF k = 1 THEN 1 ELSE h[k - 1] + 1,
                        to   |-> IF k > Len(h) THEN Len(s) ELSE h[k] - 1]],
                   LAMBDA x : /\ x.from <= Len(s)
                              /\ ~(x.from > 1 /\ s[x.from - 1] = 13 /\ s[x.from] = 10)),
         LAMBDA keep :
        [k \in 1..Len(keep) |-> SubSeq(s, keep[k].from, keep[k].to)]))

\* fetch_links_from_subscription that takes a body it cannot decode for a link
fetch_body_as_link(resp, content) ==
    IF resp = "error" THEN <<>>
    ELSE With(a2b_base64(content), LAMBDA raw :
         IF ~raw.ok THEN <<content>>
         ELSE With(utf8_decode(raw.val), LAMBDA text :
         IF ~text.ok THEN <<content>>
         ELSE With(SplitLines(text.val), LAMBDA ls :
                SelectSeq([i \in 1..Len(ls) |-> Strip(ls[i])], LAMBDA l : l # <<>>))))

\* fetch_links_from_subscription(url), the URL answering resp with body content
fetch_links_from_subscription(resp, content) ==
    IF resp = "error" THEN <<>>
    ELSE With(a2b_base64(content), LAMBDA raw :
         IF ~raw.ok THEN <<>>
         ELSE With(utf8_decode(raw.val), LAMBDA text :
         IF ~text.ok THEN <<>>
         ELSE With(SplitLines(text.val), LAMBDA ls :
                SelectSeq([i \in 1..Len(ls) |-> Strip(ls[i])], LAMBDA l : l # <<>>))))

\* a dispatch that does not tell the case of the scheme
DispatchAnyCase(link) ==
    IF StartsWith(Lower(link), Lit.vmess_) THEN "vmess"
    ELSE IF StartsWith(Lower(link), Lit.vless_) THEN "vless"
    ELSE IF StartsWith(Lower(link), Lit.trojan_) THEN "trojan"
    ELSE IF StartsWith(Lower(link), Lit.ss_) THEN "ss"
    ELSE "none"

\* lines 120-128: the decoder the loop calls for link, "none" for the else branch
Dispatch(link) ==
    IF StartsWith(link, Lit.vmess_) THEN "vmess"
    ELSE IF StartsWith(link, Lit.vless_) THEN "vless"
    ELSE IF StartsWith(link, Lit.trojan_) THEN "trojan"
    ELSE IF StartsWith(link, Lit.ss_) THEN "ss"
    ELSE "none"

\* lines 121-127: the call of the decoder
Decode(decoder, link) ==
    CASE decoder = "vmess"  -> parse_vmess(link)
      [] decoder = "vless"  -> parse_vless(link)
      [] decoder = "trojan" -> parse_trojan(link)
      [] decoder = "ss"     -> parse_ss(link)

\* what the file system may answer to one save
IoOutcomes == {"ok", "open_error", "write_error"}

\* the decoders are functions of the link alone: their results for the links
\* of the subscriptions, computed once
DecodeTable ==
    [l \in LinkUniverse |-> IF Dispatch(l) = "none" THEN None ELSE Decode(Dispatch(l), l)]

\* lines 118-127: config = None, then the result of the decoder called
Decoded(decoder, link) ==
    IF decoder = "none" THEN None
    ELSE IF link \in DOMAIN DecodeTable THEN DecodeTable[link]
    ELSE Decode(decoder, link)

\* what the loop leaves behind for one link: the decoder it called, the config
\* it got, whether it called save_config_to_file, what was printed
Entry(link, decoder, config, handed, out) ==
    [link |-> link, decoder |-> decoder, config |-> config, persist |-> handed, out |-> out]

\* a failure that is not counted
FailedUncounted(entry, succ, failed, fs) ==
    [succ |-> succ, failed |-> failed, fs |-> fs, pc |-> "loop", entry |-> entry]

\* lines 128-131 and 137-138: failed_configs += 1, nothing saved
Failed(entry, succ, failed, fs) ==
    [succ |-> succ, failed |-> failed + 1, fs |-> fs, pc |-> "loop", entry |-> entry]

\* lines 133-136: save_config_to_file(config), then successful_configs += 1
\* unless an exception left save_config_to_file
Saved(entry, save, succ, failed) ==
    IF save.raised
    THEN [succ |-> succ, failed |-> failed, fs |-> save.fs, pc |-> "crashed",
          entry |-> [entry EXCEPT !.out = "raised"]]
    ELSE [succ |-> succ + 1, failed |-> failed, fs |-> save.fs, pc |-> "loop",
          entry |-> [entry EXCEPT !.out = save.out]]

\* lines 116-138, one iteration of the loop for link, the file system
\* answering io: the counters, the directory and the position after it
LoopBody(link, io, succ, failed, fs) ==
    With(Dispatch(link), LAMBDA decoder :
    With(Decoded(decoder, link), LAMBDA config :
        IF decoder = "none"
        THEN Failed(Entry(link, decoder, config, FALSE, "unsupported"), succ, failed, fs)
        ELSE IF ~Truthy(config)
        THEN Failed(Entry(link, decoder, config, FALSE, "parse_failed"), succ, failed, fs)
        ELSE With(save_config_to_file(config, fs, io), LAMBDA save :
                Saved(Entry(link, decoder, config, TRUE, "none"), save, succ, failed))))

NoFn == [done |-> FALSE]

Init ==
    /\ pc = "start"
    /\ omit_first \in BOOLEAN
    /\ \E sub \in Subscriptions : response = sub.kind /\ body = sub.content
    /\ fetches = 0
    /\ fetched = <<>>
    /\ links = <<>>
    /\ idx = 0
    /\ successful_configs = 0
    /\ failed_configs = 0
    /\ files = EmptyDict
    /\ trace = <<>>
    /\ fn = "none" /\ fin = NoFn /\ fout = NoFn

\* line 98: links = fetch_links_from_subscription(args.url)
Fetch ==
    /\ pc = "start"
    /\ fetches' = fetches + 1
    /\ \E ls \in {fetch_links_from_subscription(response, body)} :
          fetched' = ls /\ links' = ls
    /\ pc' = "check"
    /\ UNCHANGED <<omit_first, response, body, idx, successful_configs, failed_configs,
                   files, trace, fn, fin, fout>>

\* lines 100-114: exit 1 without links, else the optional pop(0) and the counters
CheckLinks ==
    /\ pc = "check"
    /\ IF links = <<>>
       THEN /\ pc' = "exit1"
            /\ UNCHANGED links
       ELSE /\ pc' = "loop"
            /\ links' = IF omit_first /\ Len(links) > 0 THEN Tail(links) ELSE links
    /\ successful_configs' = 0
    /\ failed_configs' = 0
    /\ UNCHANGED <<omit_first, response, body, fetches, fetched, idx, files, trace,
                   fn, fin, fout>>

\* lines 116-138: the loop takes its next link
ProcessLink ==
    /\ pc = "loop"
    /\ idx < Len(links)
    /\ \E io \in IoOutcomes :
       \E r \in {LoopBody(links[idx + 1], io, successful_configs, failed_configs, files)} :
          /\ successful_configs' = r.succ
          /\ failed_configs' = r.failed
          /\ files' = r.fs
          /\ pc' = r.pc
          /\ trace' = Append(trace, r.entry)
    /\ idx' = idx + 1
    /\ UNCHANGED <<omit_first, response, body, fetches, fetched, links, fn, fin, fout>>

\* lines 140-148: the loop is over, the summary is printed
Summary ==
    /\ pc = "loop"
    /\ idx = Len(links)
    /\ pc' = "done"
    /\ UNCHANGED <<omit_first, response, body, fetches, fetched, links, idx,
                   successful_configs, failed_configs, files, trace, fn, fin, fout>>

Next == Fetch \/ CheckLinks \/ ProcessLink \/ Summary

Spec == Init /\ [][Next]_vars

(***************************************************************************)
(* The decoders and the stream settings builder as functions: an input is  *)
(* drawn, the function is applied to it once                               *)
(***************************************************************************)
\* the shadowsocks servers: method, password, address, port, tag
SsMethods == {<<97, 101, 115>>, <<110, 111, 110, 101>>}      \* aes, none
SsPasswords == {<<112>>, <<112, 119>>, <<112, 64, 119>>, <<112, 58, 119>>}      \* p, pw, p@w, p:w
SsAddresses == {<<104, 46, 105, 111>>, <<49, 46, 50, 46, 51, 46, 52>>}      \* h.io, 1.2.3.4
SsPorts == {443, 8388}
SsTags == {<<>>, <<115>>}      \* no tag, s

SsServers ==
    [method : SsMethods, password : SsPasswords, address : SsAddresses,
     port : SsPorts, tag : SsTags]

\* the parameters of a link: pairs <<key, value>> in the order they are written
Field(key, value) == <<<<key, value>>>>

\* an absent, an empty and a non-empty value of the parameter key
HostOpts(key, host) == {<<>>, Field(key, StrV(Lit.empty)), Field(key, StrV(host))}

HostS == <<115, 46, 105, 111>>      \* s.io
HostT == <<116, 46, 105, 111>>      \* t.io
HostP == <<112, 46, 105, 111>>      \* p.io
HostH == <<104, 46, 105, 111>>      \* h.io

\* the query of a vless or trojan link: security, sni (also given twice), peer
\* and one more parameter
QueryFields ==
    {sec \o sni \o peer \o extra :
        sec \in {Field(Lit.security, StrV(s)) : s \in {Lit.tls, Lit.xtls, Lit.reality, Lit.none}},
        sni \in HostOpts(Lit.sni, HostS)
                \cup {Field(Lit.sni, StrV(HostS)) \o Field(Lit.sni, StrV(HostT))},
        peer \in HostOpts(Lit.peer, HostP),
        extra \in {<<>>,
                   Field(Lit.mark, StrV(<<120>>)),
                   Field(Lit.mark, StrV(<<55>>)),
                   Field(Lit.type, StrV(Lit.kcp)) \o Field(Lit.mtu, StrV(<<120>>)),
                   Field(Lit.type, StrV(Lit.kcp)) \o Field(Lit.mtu, StrV(<<57>>)),
                   Field(Lit.headerType, StrV(Lit.http))
                       \o Field(Lit.path, StrV(<<47, 97, 44, 47, 98>>)),
                   Field(Lit.alpn, StrV(<<104, 50, 44, 104, 51>>))}}

\* the JSON object of a vmess link: tls, sni, peer and one more member
JsonFields ==
    {sec \o sni \o peer \o extra :
        sec \in {Field(Lit.tls, StrV(s)) : s \in {Lit.tls, Lit.xtls, Lit.reality, Lit.none}},
        sni \in HostOpts(Lit.sni, HostS),
        peer \in HostOpts(Lit.peer, HostP),
        extra \in {<<>>,
                   Field(Lit.mark, StrV(<<120>>)),
                   Field(Lit.mark, IntV(7)),
                   Field(Lit.net, StrV(Lit.kcp)) \o Field(Lit.mtu, StrV(<<120>>)),
                   Field(Lit.net, StrV(Lit.kcp)) \o Field(Lit.mtu, IntV(9)),
                   Field(Lit.headerType, StrV(Lit.http)) \o Field(Lit.path, IntV(5)),
                   Field(Lit.alpn, IntV(5))}}

\* the query string of the fields: key=value joined by '&'
RECURSIVE QueryOf(_)
QueryOf(fields) ==
    IF fields = <<>> THEN <<>>
    ELSE fields[1][1] \o <<61>> \o fields[1][2].v
         \o (IF Len(fields) > 1 THEN <<38>> ELSE <<>>) \o QueryOf(Tail(fields))

\* the dict json.loads makes of the members
JsonOf(fields) ==
    [k \in {fields[i][1] : i \in 1..Len(fields)} |->
        fields[Max({i \in 1..Len(fields) : fields[i][1] = k})][2]]

\* the params the decoders hand to build_stream_settings: parse_qs(query) for
\* vless and trojan, the JSON object for vmess
ParamsOf(source, fields) ==
    IF source = "query" THEN parse_qs(QueryOf(fields)) ELSE JsonOf(fields)

BuildInputs ==
    [source : {"query"}, fields : QueryFields, default_host : {StrV(HostH), StrV(Lit.empty)}]
    \cup [source : {"json"}, fields : JsonFields,
          default_host : {StrV(HostH), StrV(Lit.empty)}]

InitFn ==
    /\ pc = "fn"
    /\ omit_first = FALSE
    /\ response = "none"
    /\ body = <<>>
    /\ fetches = 0
    /\ fetched = <<>>
    /\ links = <<>>
    /\ idx = 0
    /\ successful_configs = 0
    /\ failed_configs = 0
    /\ files = EmptyDict
    /\ trace = <<>>
    /\ \/ /\ fn = "parse_ss"
          /\ fin \in [server : SsServers, padded : BOOLEAN]
       \/ /\ fn = "build_stream_settings"
          /\ fin \in BuildInputs
    /\ fout = NoFn

\* parse_ss on the legacy link and on the SIP002 link of the server
ApplyParseSs ==
    /\ fn = "parse_ss"
    /\ ~fout.done
    /\ \E l \in {LegacyLink(fin.server, fin.padded)} :
       \E s \in {Sip002Link(fin.server)} :
       \E rl \in {parse_ss(l)} :
       \E rs \in {parse_ss(s)} :
          fout' = [done |-> TRUE, legacy_link |-> l, sip002_link |-> s,
                   legacy |-> rl, sip002 |-> rs]
    /\ UNCHANGED <<pc, omit_first, response, body, fetches, fetched, links, idx,
                   successful_configs, failed_configs, files, trace, fn, fin>>

\* build_stream_settings on the params of the fields
ApplyBuild ==
    /\ fn = "build_stream_settings"
    /\ ~fout.done
    /\ \E params \in {ParamsOf(fin.source, fin.fields)} :
       \E r \in {build_stream_settings(params, fin.default_host)} :
          fout' = [done |-> TRUE, params |-> params, result |-> r]
    /\ UNCHANGED <<pc, omit_first, response, body, fetches, fetched, links, idx,
                   successful_configs, failed_configs, files, trace, fn, fin>>

NextFn == ApplyParseSs \/ ApplyBuild

SpecFn == InitFn /\ [][NextFn]_vars

(***************************************************************************)
(* Properties                                                              *)
(***************************************************************************)
\* the four prefixes a supported link starts with
Prefixes == {Lit.vmess_, Lit.vless_, Lit.trojan_, Lit.ss_}

SupportedScheme(link) == \E p \in Prefixes : StartsWith(link, p)

\* the indices of the trace the predicate holds at
Entries(P(_)) == {i \in 1..Len(trace) : P(trace[i])}

\* the links the loop is to process: the fetched links, without the first
\* under --omit-first
Remaining == IF omit_first /\ fetched # <<>> THEN Tail(fetched) ELSE fetched

\* the one outbound of a config and the server it names
Outbound(config) == config.v.outbounds.v[1].v
Server(config) ==
    IF "vnext" \in DOMAIN Outbound(config).settings.v
    THEN Outbound(config).settings.v.vnext.v[1].v
    ELSE Outbound(config).settings.v.servers.v[1].v

\* a config with one outbound, a string address, an integer port, a string
\* remarks and the tag "outbound_" + remarks
FullyValued(config) ==
    /\ config.t = "dict"
    /\ config.v.outbounds.t = "list"
    /\ Len(config.v.outbounds.v) = 1
    /\ Server(config).address.t = "str"
    /\ Server(config).port.t = "int"
    /\ config.v.remarks.t = "str"
    /\ Outbound(config).tag = StrV(Lit.outbound_ \o config.v.remarks.v)

\* the file save_config_to_file writes config to
FileOf(config) == sanitize_filename(config.v.remarks.v) \o Lit.json

\* C1: every link left after the omit-first step is processed once and in
\* order, whatever happens to the links before it, and no exception leaves
\* the loop: the run ends with the summary.
C1_FailureIsolated ==
    /\ pc # "crashed"
    /\ pc \in {"loop", "done"} =>
          /\ Len(trace) = idx
          /\ \A i \in 1..idx : trace[i].link = links[i]
    /\ pc = "done" => idx = Len(links)

\* C2: a link whose config was decoded but could not be written is counted
\* as a failure and not as a success.
C2_PersistFailureCounted ==
    /\ failed_configs = Cardinality(Entries(LAMBDA e :
                            e.out \in {"unsupported", "parse_failed", "write_error"}))
    /\ successful_configs = Cardinality(Entries(LAMBDA e : e.out = "created"))

\* C3: build_stream_settings returns stream settings for every params and
\* default host; it never raises.
C3_BuildTotal ==
    (fn = "build_stream_settings" /\ fout.done) => fout.result.ok

\* C4: parse_ss decodes the legacy link and the SIP002 link of a server to
\* the same config, which carries the server's method, password, address,
\* integer port and tag.
C4_SsFormsAgree ==
    (fn = "parse_ss" /\ fout.done) =>
       /\ Truthy(fout.legacy)
       /\ Truthy(fout.sip002)
       /\ fout.legacy = fout.sip002
       /\ Server(fout.legacy).method = StrV(fin.server.method)
       /\ Server(fout.legacy).password = StrV(fin.server.password)
       /\ Server(fout.legacy).address = StrV(fin.server.address)
       /\ Server(fout.legacy).port = IntV(fin.server.port)
       /\ fout.legacy.v.remarks =
             StrV(IF fin.server.tag # <<>> THEN fin.server.tag ELSE fin.server.address)

\* C5: a config handed to save_config_to_file comes from a decoder and is
\* fully valued: one outbound, a string address, an integer port, a string
\* remarks, the tag "outbound_" + remarks.
C5_PersistedFullyValued ==
    \A i \in 1..Len(trace) :
        trace[i].persist => trace[i].decoder # "none" /\ FullyValued(trace[i].config)

\* C6: a link without one of the four prefixes reaches no decoder, no save
\* and no file and counts as one failure; when all other links are decoded
\* and saved, the run ends with N - U successes and U failures.
C6_UnsupportedRejected ==
    /\ \A i \in 1..Len(trace) :
          ~SupportedScheme(trace[i].link) =>
             /\ trace[i].decoder = "none"
             /\ trace[i].config = None
             /\ ~trace[i].persist
             /\ trace[i].out = "unsupported"
    /\ DOMAIN files \subseteq {FileOf(trace[i].config) : i \in Entries(LAMBDA e : e.persist)}
    /\ failed_configs >= Cardinality(Entries(LAMBDA e : ~SupportedScheme(e.link)))
    /\ (/\ pc = "done"
        /\ \A i \in 1..Len(trace) :
              SupportedScheme(trace[i].link) => trace[i].out = "created")
       => /\ failed_configs = Cardinality(Entries(LAMBDA e : ~SupportedScheme(e.link)))
          /\ successful_configs = Len(links) - failed_configs
          /\ Cardinality(Entries(LAMBDA e : e.persist)) = successful_configs

\* a run over three links, one of them unsupported, the other two saved
C6_ThreeLinksOneUnsupported ==
    /\ pc = "done"
    /\ Len(links) = 3
    /\ failed_configs = 1
    /\ successful_configs = 2
    /\ Cardinality(Entries(LAMBDA e : ~SupportedScheme(e.link))) = 1
    /\ Cardinality(Entries(LAMBDA e : e.out = "created")) = 2
    /\ Cardinality(DOMAIN files) = 2

\* C7: under --omit-first the first fetched link is not processed and the
\* links 2..N are, once each and in order; without the flag the links 1..N are.
C7_OmitFirst ==
    /\ Len(trace) <= Len(Remaining)
    /\ \A i \in 1..Len(trace) : trace[i].link = Remaining[i]
    /\ pc \in {"done", "crashed"} => Len(trace) = Len(Remaining)

\* C8: the subscription is fetched once; after a failed fetch, a body that
\* is not base64 or not UTF-8, or a body of blank lines, no decoder and no
\* save is called and the run exits with code 1.
C8_FetchOnceOrExit ==
    /\ fetches = (IF pc = "start" THEN 0 ELSE 1)
    /\ response \in {"error", "not_base64", "not_utf8", "blank"} =>
          /\ pc \in {"start", "check", "exit1"}
          /\ fetched = <<>>
          /\ trace = <<>>
          /\ DOMAIN files = {}
    /\ pc = "exit1" => fetched = <<>> /\ trace = <<>>

\* a run that exits with code 1 on a body that is not base64
C8_ExitOnBadBody ==
    /\ pc = "exit1"
    /\ response = "not_base64"
    /\ fetches = 1

\* C9: for security tls, xtls and reality the serverName is the first value
\* of sni when that is not empty, else the first value of peer when that is
\* not empty, else the default host.
FirstValue(fields, key) ==
    IF \E i \in 1..Len(fields) : fields[i][1] = key
    THEN fields[Min({i \in 1..Len(fields) : fields[i][1] = key})][2]
    ELSE None

NonEmpty(x) == x.t = "str" /\ x.v # <<>>

Ladder(fields, default_host) ==
    IF NonEmpty(FirstValue(fields, Lit.sni)) THEN FirstValue(fields, Lit.sni)
    ELSE IF NonEmpty(FirstValue(fields, Lit.peer)) THEN FirstValue(fields, Lit.peer)
    ELSE default_host

\* the tls, xtls or reality block of stream settings
SecurityBlock(stream) ==
    IF "tlsSettings" \in DOMAIN stream.v THEN stream.v.tlsSettings.v
    ELSE IF "xtlsSettings" \in DOMAIN stream.v THEN stream.v.xtlsSettings.v
    ELSE stream.v.realitySettings.v

C9_ServerNameLadder ==
    (/\ fn = "build_stream_settings"
     /\ fout.done
     /\ fout.result.ok
     /\ fin.fields[1][2].v \in {Lit.tls, Lit.xtls, Lit.reality})
    => /\ SecurityBlock(fout.result.val).serverName = Ladder(fin.fields, fin.default_host)
       /\ NonEmpty(fin.default_host) => NonEmpty(SecurityBlock(fout.result.val).serverName)

====
